---- MODULE Spec2Model ----
(***************************************************************************)
(* Model of mongoengine/reconnect_proxy.py: the operation classifier       *)
(* (get_methods / EXECUTABLE_MONGO_METHODS), the retry decorator           *)
(* (safe_mongocall), the retry-wrapped invocable (Executable) and the      *)
(* proxy (ReconnectProxy).                                                 *)
(*                                                                         *)
(* The wrapped client library is opaque: it is an object graph whose       *)
(* objects have named members, keyed items and may be invocable; invoking  *)
(* one returns a value or raises an error, chosen nondeterministically.    *)
(***************************************************************************)
EXTENDS Integers, Sequences, FiniteSets, TLC

(***************************************************************************)
(* Member names are character tuples, so that attr.startswith('_') is      *)
(* computed on the name and not assumed.                                   *)
(***************************************************************************)
n_find == <<"f", "i", "n", "d">>
n_count == <<"c", "o", "u", "n", "t">>
n_internal == <<"_", "i", "n", "t", "e", "r", "n", "a", "l">>
n_name == <<"n", "a", "m", "e">>
n_mydb == <<"m", "y", "d", "b">>
n_mycoll == <<"m", "y", "c", "o", "l", "l">>
n_conn == <<"c", "o", "n", "n">>
n_str == <<"_", "_", "s", "t", "r", "_", "_">>
n_Connection == <<"C", "o", "n", "n", "e", "c", "t", "i", "o", "n">>
n_version == <<"v", "e", "r", "s", "i", "o", "n">>

n_is_primary == <<"i", "s", "_", "p", "r", "i", "m", "a", "r", "y">>

Names == {n_find, n_count, n_internal, n_name, n_mydb, n_mycoll, n_conn, n_str}

\* ------------------------------------------------------------------------
\* Bounds of the model (not program constants).
\* ------------------------------------------------------------------------
\* number of distinct messages an error of one kind can carry
MaxMsg == 2
\* number of distinct argument values a caller can pass
MaxArg == 2

Msgs == 1..MaxMsg
Args == 1..MaxArg

\* ------------------------------------------------------------------------
\* Program constants.
\* ------------------------------------------------------------------------
\* for i in range(4)
RETRIES == 4
\* time.sleep(pow(2, i))
BASE == 2

\* ------------------------------------------------------------------------
\* The wrapped object graph.  An object has members (attrs), keyed items,
\* and may have __call__.  Every other value is a plain, non-invocable value.
\* ------------------------------------------------------------------------
NoAttrs == [n \in {} |-> ""]

Heap ==
  [ connection |->
      [ callable |-> FALSE,
        attrs |-> (n_mydb :> "db") @@ (n_conn :> "db") @@ (n_name :> "localhost"),
        items |-> [mydb |-> "db"] ],
    db |->
      [ callable |-> TRUE,
        attrs |-> (n_mycoll :> "coll") @@ (n_name :> "mydb"),
        items |-> [mycoll |-> "coll", opts |-> "plain_opts"] ],
    coll |->
      [ callable |-> TRUE,
        attrs |-> (n_find :> "m_find") @@ (n_count :> "m_count")
                  @@ (n_internal :> "m_internal") @@ (n_name :> "mycoll")
                  @@ (n_str :> "m_str"),
        items |-> [sub |-> "coll"] ],
    doc |->
      [ callable |-> FALSE,
        attrs |-> (n_count :> "three") @@ (n_conn :> "plain_conn"),
        items |-> [k |-> "one"] ],
    m_find |-> [ callable |-> TRUE, attrs |-> NoAttrs, items |-> [z \in {} |-> ""] ],
    m_count |-> [ callable |-> TRUE, attrs |-> NoAttrs, items |-> [z \in {} |-> ""] ],
    m_internal |-> [ callable |-> TRUE, attrs |-> NoAttrs, items |-> [z \in {} |-> ""] ],
    m_str |-> [ callable |-> TRUE, attrs |-> NoAttrs, items |-> [z \in {} |-> ""] ],
    cls_Connection |->
      [ callable |-> TRUE, attrs |-> NoAttrs, items |-> [z \in {} |-> ""] ] ]

Objects == DOMAIN Heap
Keys == {"mydb", "mycoll", "opts", "sub", "k", "missing"}

\* hasattr(x, '__call__')
HasCall(x) == x \in Objects /\ Heap[x].callable

\* ------------------------------------------------------------------------
\* Values seen by a caller: one record shape for all of them.
\*   k = "raw"    the underlying value v itself
\*   k = "proxy"  a ReconnectProxy whose conn is v
\*   k = "exec"   an Executable whose method is v
\*   k = "bound"  a method of the proxy itself, bound to the proxy of v
\*   k = "err"    a raised error of class v carrying message m
\*   k = "none"   nothing yet
\* ------------------------------------------------------------------------
Raw(v) == [k |-> "raw", v |-> v, m |-> 0]
Err(cls, msg) == [k |-> "err", v |-> cls, m |-> msg]
None == [k |-> "none", v |-> "", m |-> 0]
Proxy(conn) == [k |-> "proxy", v |-> conn, m |-> 0]
Exec(method) == [k |-> "exec", v |-> method, m |-> 0]
Bound(conn) == [k |-> "bound", v |-> conn, m |-> 0]

\* What invoking the underlying value o can do: the client library is opaque,
\* so every outcome is possible; a value without __call__ raises TypeError.
Results == {"ok", "empty"}
ErrorClasses == {"AutoReconnect", "OperationFailure"}

Invoke(o) ==
  IF HasCall(o)
    THEN {Raw(r) : r \in Results} \cup {Err(cls, msg) : cls \in ErrorClasses, msg \in Msgs}
    ELSE {Err("TypeError", 1)}

\* events of one operation, in program order
CallEv(a, out) == [t |-> "call", n |-> 0, a |-> a, out |-> out]
WarnEv(n) == [t |-> "warn", n |-> n, a |-> 0, out |-> None]
SleepEv(d) == [t |-> "sleep", n |-> d, a |-> 0, out |-> None]

\* the operation a caller performed: its name, the object it was performed on
\* and its input
Op(name, on, attr, item, args) ==
  [name |-> name, on |-> on, attr |-> attr, item |-> item, args |-> args]

\* ------------------------------------------------------------------------
\* State.
\* ------------------------------------------------------------------------
VARIABLES
  roots,                      \* the root types handed to get_methods
  loaded,                     \* the module body has run
  EXECUTABLE_MONGO_METHODS,   \* the module-level operation set
  threads,                    \* the callers
  cur,                        \* per caller: the object it holds
  op,                         \* per caller: the operation it performed last
  ret,                        \* per caller: what that operation returned or raised
  pc,                         \* per caller: position inside _safe_mongocall
  i,                          \* per caller: the loop variable of _safe_mongocall
  trace,                      \* per caller: calls, warnings and sleeps of the operation
  fx,                         \* per caller: per attempt, whether the underlying effect was applied
  prior                       \* per caller: attempts made by its previous retry-wrapped call

vars ==
  <<roots, loaded, EXECUTABLE_MONGO_METHODS, threads, cur, op, ret, pc, i, trace, fx, prior>>

\* Whether an invocation of o that ended with out applied the operation's
\* effect on the server: a result means it did, an error can come before or
\* after the effect, and a value without __call__ never runs.
Applied(o, out) ==
  IF ~HasCall(o) THEN {FALSE}
  ELSE IF out.k = "raw" THEN {TRUE}
  ELSE {TRUE, FALSE}

\* the attempts made by the retry-wrapped call that ended before the
\* operation now starting
Earlier(c) ==
  IF op[c].name = "call"
    THEN Len(SelectSeq(trace[c], LAMBDA e : e.t = "call"))
    ELSE prior[c]

\* ------------------------------------------------------------------------
\* Operation classifier.
\* A root type is a table from its member names (dir) to the member values.
\* ------------------------------------------------------------------------
startswith(s, prefix) ==
  Len(s) >= Len(prefix) /\ SubSeq(s, 1, Len(prefix)) = prefix

dir(obj) == DOMAIN obj

\* mutant: the private-prefix test is dropped
get_methods_all_names(objs) ==
  UNION { { attr \in dir(objs[j]) : HasCall(objs[j][attr]) } : j \in DOMAIN objs }

get_methods(objs) ==
  UNION { { attr \in dir(objs[j]) :
              ~startswith(attr, <<"_">>) /\ HasCall(objs[j][attr]) }
          : j \in DOMAIN objs }

\* pymongo.collection.Collection, pymongo.Connection, pymongo
PymongoRoots ==
  << (n_find :> "m_find") @@ (n_count :> "m_count") @@ (n_internal :> "m_internal")
       @@ (n_name :> "mycoll") @@ (n_str :> "m_str"),
     (n_name :> "localhost") @@ (n_internal :> "m_internal"),
     (n_Connection :> "cls_Connection") @@ (n_version :> "two") >>

\* the root types the classifier is exercised on
ClassifyNames == {n_find, n_internal, n_name}
MemberValues == {"m_find", "three"}
RootTypes == UNION { [S -> MemberValues] : S \in SUBSET ClassifyNames }

\* the module body, lines 16-18
LoadModule ==
  /\ ~loaded
  /\ loaded' = TRUE
  /\ EXECUTABLE_MONGO_METHODS' = get_methods(roots)
  /\ UNCHANGED <<roots, threads, cur, op, ret, pc, i, trace, fx, prior>>

\* ------------------------------------------------------------------------
\* safe_mongocall / Executable.__call__
\* ------------------------------------------------------------------------
\* mutant: a linear delay, 2 * i
pow_linear(b, e) == b * e

RECURSIVE pow(_, _)
pow(b, e) == IF e = 0 THEN 1 ELSE b * pow(b, e - 1)

\* mutant: except Exception
IsAutoReconnect_any(out) == out.k = "err"

\* except pymongo.errors.AutoReconnect
IsAutoReconnect(out) == out.k = "err" /\ out.v = "AutoReconnect"

\* mutant: the attempt counter is kept between calls
ExecutableCall_carrying(c, a) ==
  /\ loaded /\ pc[c] = "idle" /\ cur[c].k = "exec"
  /\ op' = [op EXCEPT ![c] = Op("call", cur[c], <<>>, "", a)]
  /\ ret' = [ret EXCEPT ![c] = None]
  /\ trace' = [trace EXCEPT ![c] = <<>>]
  /\ pc' = [pc EXCEPT ![c] = IF i[c] < RETRIES THEN "loop" ELSE "final"]
  /\ fx' = [fx EXCEPT ![c] = <<>>]
  /\ prior' = [prior EXCEPT ![c] = Earlier(c)]
  /\ UNCHANGED <<roots, loaded, EXECUTABLE_MONGO_METHODS, threads, cur, i>>

\* Executable.__call__ is entered: _safe_mongocall starts its loop
ExecutableCall(c, a) ==
  /\ loaded /\ pc[c] = "idle" /\ cur[c].k = "exec"
  /\ op' = [op EXCEPT ![c] = Op("call", cur[c], <<>>, "", a)]
  /\ ret' = [ret EXCEPT ![c] = None]
  /\ trace' = [trace EXCEPT ![c] = <<>>]
  /\ i' = [i EXCEPT ![c] = 0]
  /\ pc' = [pc EXCEPT ![c] = IF 0 < RETRIES THEN "loop" ELSE "final"]
  /\ fx' = [fx EXCEPT ![c] = <<>>]
  /\ prior' = [prior EXCEPT ![c] = Earlier(c)]
  /\ UNCHANGED <<roots, loaded, EXECUTABLE_MONGO_METHODS, threads, cur>>

\* mutant: an attempt is skipped when an earlier attempt of the same call
\* already applied its effect
LoopCall_deduplicated(c) ==
  /\ pc[c] = "loop"
  /\ IF \E k \in DOMAIN fx[c] : fx[c][k]
       THEN /\ pc' = [pc EXCEPT ![c] = "idle"]
            /\ ret' = [ret EXCEPT ![c] = Raw("ok")]
            /\ UNCHANGED <<fx, trace>>
       ELSE \E out \in Invoke(cur[c].v) : \E f \in Applied(cur[c].v, out) :
              /\ fx' = [fx EXCEPT ![c] = Append(@, f)]
              /\ trace' = [trace EXCEPT ![c] = Append(@, CallEv(op[c].args, out))]
              /\ IF IsAutoReconnect(out)
                   THEN /\ pc' = [pc EXCEPT ![c] = "warn"]
                        /\ ret' = ret
                   ELSE /\ pc' = [pc EXCEPT ![c] = "idle"]
                        /\ ret' = [ret EXCEPT ![c] = out]
  /\ UNCHANGED <<roots, loaded, EXECUTABLE_MONGO_METHODS, threads, cur, op, i, prior>>

\* line 29 under the handler of line 30
LoopCall(c) ==
  /\ pc[c] = "loop"
  /\ \E out \in Invoke(cur[c].v) : \E f \in Applied(cur[c].v, out) :
       /\ fx' = [fx EXCEPT ![c] = Append(@, f)]
       /\ trace' = [trace EXCEPT ![c] = Append(@, CallEv(op[c].args, out))]
       /\ IF IsAutoReconnect(out)
            THEN /\ pc' = [pc EXCEPT ![c] = "warn"]
                 /\ ret' = ret
            ELSE /\ pc' = [pc EXCEPT ![c] = "idle"]
                 /\ ret' = [ret EXCEPT ![c] = out]
  /\ UNCHANGED <<roots, loaded, EXECUTABLE_MONGO_METHODS, threads, cur, op, i, prior>>

\* mutant: the warning counts attempts from 1
LogWarning_one_based(c) ==
  /\ pc[c] = "warn"
  /\ trace' = [trace EXCEPT ![c] = Append(@, WarnEv(i[c] + 1))]
  /\ pc' = [pc EXCEPT ![c] = "sleep"]
  /\ UNCHANGED <<roots, loaded, EXECUTABLE_MONGO_METHODS, threads, cur, op, ret, i, fx, prior>>

\* line 31
LogWarning(c) ==
  /\ pc[c] = "warn"
  /\ trace' = [trace EXCEPT ![c] = Append(@, WarnEv(i[c]))]
  /\ pc' = [pc EXCEPT ![c] = "sleep"]
  /\ UNCHANGED <<roots, loaded, EXECUTABLE_MONGO_METHODS, threads, cur, op, ret, i, fx, prior>>

\* mutant: one attempt counter shared by all callers
Sleep_shared_counter(c) ==
  /\ pc[c] = "sleep"
  /\ trace' = [trace EXCEPT ![c] = Append(@, SleepEv(pow(BASE, i[c])))]
  /\ IF i[c] + 1 < RETRIES
       THEN /\ i' = [d \in DOMAIN i |-> i[c] + 1]
            /\ pc' = [pc EXCEPT ![c] = "loop"]
       ELSE /\ i' = i
            /\ pc' = [pc EXCEPT ![c] = "final"]
  /\ UNCHANGED <<roots, loaded, EXECUTABLE_MONGO_METHODS, threads, cur, op, ret, fx, prior>>

\* mutant: "while True" for the bounded loop
Sleep_unbounded(c) ==
  /\ pc[c] = "sleep"
  /\ trace' = [trace EXCEPT ![c] = Append(@, SleepEv(pow(BASE, i[c])))]
  /\ i' = [i EXCEPT ![c] = @ + 1]
  /\ pc' = [pc EXCEPT ![c] = "loop"]
  /\ UNCHANGED <<roots, loaded, EXECUTABLE_MONGO_METHODS, threads, cur, op, ret, fx, prior>>

\* mutant: the delay is computed from the next attempt's number
Sleep_next_delay(c) ==
  /\ pc[c] = "sleep"
  /\ trace' = [trace EXCEPT ![c] = Append(@, SleepEv(pow(BASE, i[c] + 1)))]
  /\ IF i[c] + 1 < RETRIES
       THEN /\ i' = [i EXCEPT ![c] = @ + 1]
            /\ pc' = [pc EXCEPT ![c] = "loop"]
       ELSE /\ i' = i
            /\ pc' = [pc EXCEPT ![c] = "final"]
  /\ UNCHANGED <<roots, loaded, EXECUTABLE_MONGO_METHODS, threads, cur, op, ret, fx, prior>>

\* mutant: one iteration too many, range(RETRIES + 1)
Sleep_extra_iteration(c) ==
  /\ pc[c] = "sleep"
  /\ trace' = [trace EXCEPT ![c] = Append(@, SleepEv(pow(BASE, i[c])))]
  /\ IF i[c] + 1 <= RETRIES
       THEN /\ i' = [i EXCEPT ![c] = @ + 1]
            /\ pc' = [pc EXCEPT ![c] = "loop"]
       ELSE /\ i' = i
            /\ pc' = [pc EXCEPT ![c] = "final"]
  /\ UNCHANGED <<roots, loaded, EXECUTABLE_MONGO_METHODS, threads, cur, op, ret, fx, prior>>

\* line 32, then the next iteration of line 27 or the fall through to line 35
Sleep(c) ==
  /\ pc[c] = "sleep"
  /\ trace' = [trace EXCEPT ![c] = Append(@, SleepEv(pow(BASE, i[c])))]
  /\ IF i[c] + 1 < RETRIES
       THEN /\ i' = [i EXCEPT ![c] = @ + 1]
            /\ pc' = [pc EXCEPT ![c] = "loop"]
       ELSE /\ i' = i
            /\ pc' = [pc EXCEPT ![c] = "final"]
  /\ UNCHANGED <<roots, loaded, EXECUTABLE_MONGO_METHODS, threads, cur, op, ret, fx, prior>>

\* mutant: the last failure is reported as a generic error
FinalCall_generic_error(c) ==
  /\ pc[c] = "final"
  /\ \E out \in Invoke(cur[c].v) : \E f \in Applied(cur[c].v, out) :
       /\ fx' = [fx EXCEPT ![c] = Append(@, f)]
       /\ trace' = [trace EXCEPT ![c] = Append(@, CallEv(op[c].args, out))]
       /\ ret' = [ret EXCEPT ![c] = IF out.k = "err" THEN Err("Exception", 1) ELSE out]
  /\ pc' = [pc EXCEPT ![c] = "idle"]
  /\ UNCHANGED <<roots, loaded, EXECUTABLE_MONGO_METHODS, threads, cur, op, i, prior>>

\* mutant: the final attempt's transient failure is logged like the others
FinalCall_logged(c) ==
  /\ pc[c] = "final"
  /\ \E out \in Invoke(cur[c].v) : \E f \in Applied(cur[c].v, out) :
       /\ fx' = [fx EXCEPT ![c] = Append(@, f)]
       /\ trace' = [trace EXCEPT ![c] =
            IF IsAutoReconnect(out)
              THEN Append(Append(@, CallEv(op[c].args, out)), WarnEv(RETRIES))
              ELSE Append(@, CallEv(op[c].args, out))]
       /\ ret' = [ret EXCEPT ![c] = out]
  /\ pc' = [pc EXCEPT ![c] = "idle"]
  /\ UNCHANGED <<roots, loaded, EXECUTABLE_MONGO_METHODS, threads, cur, op, i, prior>>

\* line 35
FinalCall(c) ==
  /\ pc[c] = "final"
  /\ \E out \in Invoke(cur[c].v) : \E f \in Applied(cur[c].v, out) :
       /\ fx' = [fx EXCEPT ![c] = Append(@, f)]
       /\ trace' = [trace EXCEPT ![c] = Append(@, CallEv(op[c].args, out))]
       /\ ret' = [ret EXCEPT ![c] = out]
  /\ pc' = [pc EXCEPT ![c] = "idle"]
  /\ UNCHANGED <<roots, loaded, EXECUTABLE_MONGO_METHODS, threads, cur, op, i, prior>>

\* ------------------------------------------------------------------------
\* ReconnectProxy
\* ------------------------------------------------------------------------
\* the names bound at module level when a method body runs
ModuleGlobals ==
  {"time", "pymongo", "logging", "logger", "get_methods", "EXECUTABLE_MONGO_METHODS",
   "safe_mongocall", "Executable", "ReconnectProxy"}

\* the names found on the proxy object itself, for which Python never
\* calls __getattr__: the field set by __init__ and the methods of the class
ProxyFields == {n_conn}
ProxyMethods == {n_str}

\* __getitem__(self, key), self.conn = conn
ReconnectProxy__getitem__(conn, key) ==
  IF key \notin DOMAIN Heap[conn].items
    THEN Err("KeyError", 1)
    ELSE LET item == Heap[conn].items[key] IN
         IF HasCall(item)
           THEN IF "MongoProxy" \in ModuleGlobals
                  THEN Proxy(item)
                  ELSE Err("NameError", 1)
           ELSE Raw(item)

\* mutant: "or" for "and" in line 95
ReconnectProxy__getattr__or(conn, key) ==
  IF key \notin DOMAIN Heap[conn].attrs
    THEN Err("AttributeError", 1)
    ELSE LET attr == Heap[conn].attrs[key] IN
         IF HasCall(attr) \/ key \in EXECUTABLE_MONGO_METHODS
           THEN Exec(attr)
           ELSE Raw(attr)

\* __getattr__(self, key), self.conn = conn
ReconnectProxy__getattr__(conn, key) ==
  IF key \notin DOMAIN Heap[conn].attrs
    THEN Err("AttributeError", 1)
    ELSE LET attr == Heap[conn].attrs[key] IN
         IF HasCall(attr) /\ key \in EXECUTABLE_MONGO_METHODS
           THEN Exec(attr)
           ELSE Raw(attr)

\* proxy.key: the instance and its class are searched first, __getattr__ is
\* the fallback
ProxyAttribute(conn, key) ==
  IF key \in ProxyFields THEN Raw(conn)
  ELSE IF key \in ProxyMethods THEN Bound(conn)
  ELSE ReconnectProxy__getattr__(conn, key)

\* what the caller holds after an operation returned r
Holds(before, r) == IF r.k \in {"proxy", "exec"} THEN r ELSE before

\* ReconnectProxy(conn)
Init__(c, conn) ==
  /\ loaded /\ pc[c] = "idle"
  /\ op' = [op EXCEPT ![c] = Op("init", Raw(conn), <<>>, "", 0)]
  /\ ret' = [ret EXCEPT ![c] = Proxy(conn)]
  /\ cur' = [cur EXCEPT ![c] = Proxy(conn)]
  /\ trace' = [trace EXCEPT ![c] = <<>>]
  /\ fx' = [fx EXCEPT ![c] = <<>>]
  /\ prior' = [prior EXCEPT ![c] = Earlier(c)]
  /\ UNCHANGED <<roots, loaded, EXECUTABLE_MONGO_METHODS, threads, pc, i>>

\* proxy[key]
GetItem(c, key) ==
  /\ loaded /\ pc[c] = "idle" /\ cur[c].k = "proxy"
  /\ LET r == ReconnectProxy__getitem__(cur[c].v, key) IN
       /\ op' = [op EXCEPT ![c] = Op("getitem", cur[c], <<>>, key, 0)]
       /\ ret' = [ret EXCEPT ![c] = r]
       /\ cur' = [cur EXCEPT ![c] = Holds(@, r)]
  /\ trace' = [trace EXCEPT ![c] = <<>>]
  /\ fx' = [fx EXCEPT ![c] = <<>>]
  /\ prior' = [prior EXCEPT ![c] = Earlier(c)]
  /\ UNCHANGED <<roots, loaded, EXECUTABLE_MONGO_METHODS, threads, pc, i>>

\* mutant: the operation set learns every invocable member it meets
GetAttr_learning(c, key) ==
  /\ loaded /\ pc[c] = "idle" /\ cur[c].k = "proxy"
  /\ LET r == ProxyAttribute(cur[c].v, key) IN
       /\ op' = [op EXCEPT ![c] = Op("getattr", cur[c], key, "", 0)]
       /\ ret' = [ret EXCEPT ![c] = r]
       /\ cur' = [cur EXCEPT ![c] = Holds(@, r)]
       /\ EXECUTABLE_MONGO_METHODS' =
            IF r.k = "raw" /\ HasCall(r.v)
              THEN EXECUTABLE_MONGO_METHODS \cup {key}
              ELSE EXECUTABLE_MONGO_METHODS
  /\ trace' = [trace EXCEPT ![c] = <<>>]
  /\ fx' = [fx EXCEPT ![c] = <<>>]
  /\ prior' = [prior EXCEPT ![c] = Earlier(c)]
  /\ UNCHANGED <<roots, loaded, threads, pc, i>>

\* proxy.key
GetAttr(c, key) ==
  /\ loaded /\ pc[c] = "idle" /\ cur[c].k = "proxy"
  /\ LET r == ProxyAttribute(cur[c].v, key) IN
       /\ op' = [op EXCEPT ![c] = Op("getattr", cur[c], key, "", 0)]
       /\ ret' = [ret EXCEPT ![c] = r]
       /\ cur' = [cur EXCEPT ![c] = Holds(@, r)]
  /\ trace' = [trace EXCEPT ![c] = <<>>]
  /\ fx' = [fx EXCEPT ![c] = <<>>]
  /\ prior' = [prior EXCEPT ![c] = Earlier(c)]
  /\ UNCHANGED <<roots, loaded, EXECUTABLE_MONGO_METHODS, threads, pc, i>>

\* Members that the wrapped object computes by asking the server when they
\* are resolved (a property, an indexed fetch): their resolution returns a
\* plain value or raises, like any exchange with the server.
RemoteNames == {n_is_primary}
RemoteKeys == {"first"}
Resolve ==
  {Raw(r) : r \in Results} \cup {Err(cls, msg) : cls \in ErrorClasses, msg \in Msgs}

ResolveEv(out) == [t |-> "resolve", n |-> 0, a |-> 0, out |-> out]

\* proxy[key] for a key fetched from the server: line 82, then lines 83-85
GetItemRemote(c, key) ==
  /\ loaded /\ pc[c] = "idle" /\ cur[c].k = "proxy"
  /\ \E item \in Resolve :
       /\ trace' = [trace EXCEPT ![c] = <<ResolveEv(item)>>]
       /\ ret' = [ret EXCEPT ![c] =
            IF item.k = "raw" /\ HasCall(item.v)
              THEN IF "MongoProxy" \in ModuleGlobals
                     THEN Proxy(item.v)
                     ELSE Err("NameError", 1)
              ELSE item]
  /\ op' = [op EXCEPT ![c] = Op("getitem", cur[c], <<>>, key, 0)]
  /\ fx' = [fx EXCEPT ![c] = <<>>]
  /\ prior' = [prior EXCEPT ![c] = Earlier(c)]
  /\ UNCHANGED <<roots, loaded, EXECUTABLE_MONGO_METHODS, threads, cur, pc, i>>

\* mutant: the resolution of the member runs inside the retry loop
GetAttrRemote_retried(c, key) ==
  /\ loaded /\ pc[c] = "idle" /\ cur[c].k = "proxy"
  /\ \E attr \in Resolve :
       IF IsAutoReconnect(attr)
         THEN \E again \in Resolve :
                /\ trace' = [trace EXCEPT ![c] =
                     <<ResolveEv(attr), WarnEv(0), SleepEv(pow(BASE, 0)), ResolveEv(again)>>]
                /\ ret' = [ret EXCEPT ![c] = again]
         ELSE /\ trace' = [trace EXCEPT ![c] = <<ResolveEv(attr)>>]
              /\ ret' = [ret EXCEPT ![c] = attr]
  /\ op' = [op EXCEPT ![c] = Op("getattr", cur[c], key, "", 0)]
  /\ fx' = [fx EXCEPT ![c] = <<>>]
  /\ prior' = [prior EXCEPT ![c] = Earlier(c)]
  /\ UNCHANGED <<roots, loaded, EXECUTABLE_MONGO_METHODS, threads, cur, pc, i>>

\* proxy.key for a member computed by the server: line 94, then lines 95-97
GetAttrRemote(c, key) ==
  /\ loaded /\ pc[c] = "idle" /\ cur[c].k = "proxy"
  /\ \E attr \in Resolve :
       /\ trace' = [trace EXCEPT ![c] = <<ResolveEv(attr)>>]
       /\ ret' = [ret EXCEPT ![c] =
            IF attr.k = "raw" /\ HasCall(attr.v) /\ key \in EXECUTABLE_MONGO_METHODS
              THEN Exec(attr.v)
              ELSE attr]
  /\ op' = [op EXCEPT ![c] = Op("getattr", cur[c], key, "", 0)]
  /\ fx' = [fx EXCEPT ![c] = <<>>]
  /\ prior' = [prior EXCEPT ![c] = Earlier(c)]
  /\ UNCHANGED <<roots, loaded, EXECUTABLE_MONGO_METHODS, threads, cur, pc, i>>

\* mutant: __call__ decorated with safe_mongocall
ProxyCall_decorated(c, a) ==
  /\ loaded /\ pc[c] = "idle" /\ cur[c].k = "proxy"
  /\ op' = [op EXCEPT ![c] = Op("call_proxy", cur[c], <<>>, "", a)]
  /\ ret' = [ret EXCEPT ![c] = None]
  /\ trace' = [trace EXCEPT ![c] = <<>>]
  /\ i' = [i EXCEPT ![c] = 0]
  /\ pc' = [pc EXCEPT ![c] = "loop"]
  /\ fx' = [fx EXCEPT ![c] = <<>>]
  /\ prior' = [prior EXCEPT ![c] = Earlier(c)]
  /\ UNCHANGED <<roots, loaded, EXECUTABLE_MONGO_METHODS, threads, cur>>

\* proxy(*args): __call__, lines 99-100
ProxyCall(c, a) ==
  /\ loaded /\ pc[c] = "idle" /\ cur[c].k = "proxy"
  /\ \E out \in Invoke(cur[c].v) : \E f \in Applied(cur[c].v, out) :
       /\ fx' = [fx EXCEPT ![c] = <<f>>]
       /\ trace' = [trace EXCEPT ![c] = <<CallEv(a, out)>>]
       /\ ret' = [ret EXCEPT ![c] = out]
  /\ op' = [op EXCEPT ![c] = Op("call_proxy", cur[c], <<>>, "", a)]
  /\ prior' = [prior EXCEPT ![c] = Earlier(c)]
  /\ UNCHANGED <<roots, loaded, EXECUTABLE_MONGO_METHODS, threads, cur, pc, i>>

\* the wrapped objects that are false in a boolean context (an empty
\* container), and the truth value of a wrapped object
FalsyObjects == {"doc"}
Truth(o) == IF o \in FalsyObjects THEN "False" ELSE "True"

\* mutant: truthiness delegated to the wrapped object, as __str__ is
ReconnectProxy__bool__delegating(conn) == Truth(conn)

\* __bool__(self), self.conn = conn
ReconnectProxy__bool__(conn) == "True"

\* bool(proxy)
Bool(c) ==
  /\ loaded /\ pc[c] = "idle" /\ cur[c].k = "proxy"
  /\ op' = [op EXCEPT ![c] = Op("bool", cur[c], <<>>, "", 0)]
  /\ ret' = [ret EXCEPT ![c] = Raw(ReconnectProxy__bool__(cur[c].v))]
  /\ trace' = [trace EXCEPT ![c] = <<>>]
  /\ fx' = [fx EXCEPT ![c] = <<>>]
  /\ prior' = [prior EXCEPT ![c] = Earlier(c)]
  /\ UNCHANGED <<roots, loaded, EXECUTABLE_MONGO_METHODS, threads, cur, pc, i>>

\* ------------------------------------------------------------------------
\* Specifications.
\* ------------------------------------------------------------------------
Idle(T) ==
  /\ threads = T
  /\ cur = [c \in T |-> Proxy("connection")]
  /\ op = [c \in T |-> Op("init", Raw("connection"), <<>>, "", 0)]
  /\ ret = [c \in T |-> Proxy("connection")]
  /\ pc = [c \in T |-> "idle"]
  /\ i = [c \in T |-> 0]
  /\ trace = [c \in T |-> <<>>]
  /\ fx = [c \in T |-> <<>>]
  /\ prior = [c \in T |-> 0]

\* the module is imported and one caller has wrapped a connection
Init ==
  /\ roots = PymongoRoots
  /\ loaded = TRUE
  /\ EXECUTABLE_MONGO_METHODS = get_methods(roots)
  /\ Idle({1})

Next ==
  \/ \E c \in threads, conn \in Objects : Init__(c, conn)
  \/ \E c \in threads, key \in Keys : GetItem(c, key)
  \/ \E c \in threads, key \in Names : GetAttr(c, key)
  \/ \E c \in threads, key \in RemoteKeys : GetItemRemote(c, key)
  \/ \E c \in threads, key \in RemoteNames : GetAttrRemote(c, key)
  \/ \E c \in threads, a \in Args : ProxyCall(c, a)
  \/ \E c \in threads : Bool(c)
  \/ \E c \in threads, a \in Args : ExecutableCall(c, a)
  \/ \E c \in threads : LoopCall(c)
  \/ \E c \in threads : LogWarning(c)
  \/ \E c \in threads : Sleep(c)
  \/ \E c \in threads : FinalCall(c)

Spec == Init /\ [][Next]_vars

\* the classifier on arbitrary root types: the module is about to be imported
InitClassify ==
  /\ roots \in [1..3 -> RootTypes]
  /\ loaded = FALSE
  /\ EXECUTABLE_MONGO_METHODS = {}
  /\ Idle({1})

NextClassify == LoadModule

SpecClassify == InitClassify /\ [][NextClassify]_vars

\* Two callers, each holding the retry-wrapped find of a proxy of the same
\* collection, run their retry loops concurrently.  To keep the product of
\* the two callers' states small the argument is fixed, every error class
\* carries one message and only a successful attempt applies its effect.
InitConc ==
  /\ roots = PymongoRoots
  /\ loaded = TRUE
  /\ EXECUTABLE_MONGO_METHODS = get_methods(roots)
  /\ threads = {1, 2}
  /\ cur = [c \in threads |-> Exec("m_find")]
  /\ op = [c \in threads |-> Op("getattr", Proxy("coll"), n_find, "", 0)]
  /\ ret = [c \in threads |-> Exec("m_find")]
  /\ pc = [c \in threads |-> "idle"]
  /\ i = [c \in threads |-> 0]
  /\ trace = [c \in threads |-> <<>>]
  /\ fx = [c \in threads |-> <<>>]
  /\ prior = [c \in threads |-> 0]

ConcOutcome(c) ==
  LET e == trace[c][Len(trace[c])] IN
    /\ e.out \in {Raw("ok"), Err("AutoReconnect", 1), Err("OperationFailure", 1)}
    /\ fx[c][Len(fx[c])] = (e.out.k = "raw")

NextConc ==
  \/ \E c \in threads : ExecutableCall(c, 1)
  \/ \E c \in threads : LoopCall(c) /\ ConcOutcome(c)'
  \/ \E c \in threads : LogWarning(c)
  \/ \E c \in threads : Sleep(c)
  \/ \E c \in threads : FinalCall(c) /\ ConcOutcome(c)'

SpecConc == InitConc /\ [][NextConc]_vars

\* One caller holding the retry-wrapped find calls it again and again; every
\* attempt of the underlying operation, every warning and every sleep
\* returns, so a step of the loop that can be taken is eventually taken.
InitRetry ==
  /\ roots = PymongoRoots
  /\ loaded = TRUE
  /\ EXECUTABLE_MONGO_METHODS = get_methods(roots)
  /\ threads = {1}
  /\ cur = [c \in threads |-> Exec("m_find")]
  /\ op = [c \in threads |-> Op("getattr", Proxy("coll"), n_find, "", 0)]
  /\ ret = [c \in threads |-> Exec("m_find")]
  /\ pc = [c \in threads |-> "idle"]
  /\ i = [c \in threads |-> 0]
  /\ trace = [c \in threads |-> <<>>]
  /\ fx = [c \in threads |-> <<>>]
  /\ prior = [c \in threads |-> 0]

NextRetry ==
  \/ \E c \in threads, a \in Args : ExecutableCall(c, a)
  \/ \E c \in threads : LoopCall(c)
  \/ \E c \in threads : LogWarning(c)
  \/ \E c \in threads : Sleep(c)
  \/ \E c \in threads : FinalCall(c)

RetryFairness ==
  \A c \in {1} :
    /\ WF_vars(LoopCall(c))
    /\ WF_vars(LogWarning(c))
    /\ WF_vars(Sleep(c))
    /\ WF_vars(FinalCall(c))

SpecRetry == InitRetry /\ [][NextRetry]_vars /\ RetryFairness

\* ------------------------------------------------------------------------
\* Vocabulary of the properties.
\* ------------------------------------------------------------------------
IsCall(e) == e.t = "call"
IsWarn(e) == e.t = "warn"
IsSleep(e) == e.t = "sleep"

\* the attempts, warnings and delays of caller c's operation, in order
Calls(c) == SelectSeq(trace[c], IsCall)
Warnings(c) == [j \in 1..Len(SelectSeq(trace[c], IsWarn)) |-> SelectSeq(trace[c], IsWarn)[j].n]
Delays(c) == [j \in 1..Len(SelectSeq(trace[c], IsSleep)) |-> SelectSeq(trace[c], IsSleep)[j].n]

\* the transient-reconnect error, and any other error
Transient(out) == out.k = "err" /\ out.v = "AutoReconnect"
Fatal(out) == out.k = "err" /\ out.v # "AutoReconnect"
Success(out) == out.k = "raw"

\* caller c called a retry-wrapped invocable and the call has ended
ExecDone(c) == op[c].name = "call" /\ pc[c] = "idle"

\* every attempt is followed by its warning and its delay before the next one
Alternates(tr) ==
  \A p \in DOMAIN tr :
    tr[p].t = (IF p % 3 = 1 THEN "call" ELSE IF p % 3 = 2 THEN "warn" ELSE "sleep")

\* the first k attempts failed with the transient error
FirstTransient(cs, k) == \A j \in 1..k : j \in DOMAIN cs /\ Transient(cs[j].out)

\* ------------------------------------------------------------------------
\* C1 - retry exhaustion: a call whose every attempt failed with the
\* transient error made exactly 5 attempts, with exactly the 4 delays
\* 1, 2, 4, 8 in that order between them, and raised the transient error.
\* ------------------------------------------------------------------------
C1_RetryExhaustion ==
  \A c \in threads :
    (ExecDone(c) /\ FirstTransient(Calls(c), Len(Calls(c)))) =>
      /\ Len(Calls(c)) = 5
      /\ Delays(c) = <<1, 2, 4, 8>>
      /\ Len(trace[c]) = 13 /\ Alternates(trace[c])
      /\ Transient(ret[c])

C1_Witness ==
  \E c \in threads :
    /\ ExecDone(c) /\ Len(Calls(c)) = 5
    /\ FirstTransient(Calls(c), 5)
    /\ Transient(ret[c])

\* ------------------------------------------------------------------------
\* C2 - retry success: a call whose first k attempts (0 <= k <= 3) failed
\* with the transient error and whose next attempt succeeded returns that
\* result, with exactly k warnings and the k delays 2^0 .. 2^(k-1) in
\* sequence; for k = 0 nothing but the one attempt happened.
\* ------------------------------------------------------------------------
C2_RetrySuccess ==
  \A c \in threads : \A k \in 0..3 :
    ( /\ op[c].name = "call"
      /\ Len(Calls(c)) >= k + 1
      /\ FirstTransient(Calls(c), k)
      /\ Success(Calls(c)[k + 1].out) ) =>
      /\ pc[c] = "idle"
      /\ ret[c] = Calls(c)[k + 1].out
      /\ Len(Calls(c)) = k + 1
      /\ Len(Warnings(c)) = k
      /\ Delays(c) = [j \in 1..k |-> 2 ^ (j - 1)]
      /\ (k = 0 => Len(trace[c]) = 1)

C2_Witness ==
  \E c \in threads :
    /\ ExecDone(c) /\ Len(Calls(c)) = 4
    /\ FirstTransient(Calls(c), 3)
    /\ ret[c] = Raw("ok")
    /\ Delays(c) = <<1, 2, 4>>

\* ------------------------------------------------------------------------
\* C3 - non-transient immediacy: at whatever attempt an error other than
\* the transient one is raised, it is the last thing the call does: the
\* caller receives it, and no attempt, sleep or warning follows it.
\* ------------------------------------------------------------------------
C3_NonTransientImmediate ==
  \A c \in threads : \A p \in DOMAIN trace[c] :
    (op[c].name = "call" /\ IsCall(trace[c][p]) /\ Fatal(trace[c][p].out)) =>
      /\ p = Len(trace[c])
      /\ pc[c] = "idle"
      /\ ret[c] = trace[c][p].out

C3_Witness ==
  \E c \in threads :
    /\ ExecDone(c) /\ Len(Calls(c)) = 3
    /\ FirstTransient(Calls(c), 2)
    /\ Fatal(ret[c])
    /\ Len(trace[c]) = 7

\* ------------------------------------------------------------------------
\* C4 - recovery from up to 4 consecutive transient errors and never more:
\* there is never a 6th attempt, the outcome of a 5th attempt is the outcome
\* of the call, and a 5th attempt that succeeds after 4 transient failures
\* gives the caller the success result and no error.
\* ------------------------------------------------------------------------
C4_FifthAttemptFinal ==
  \A c \in threads :
    op[c].name = "call" =>
      /\ Len(Calls(c)) <= 5
      /\ Len(Calls(c)) = 5 =>
            /\ pc[c] = "idle"
            /\ ret[c] = Calls(c)[5].out
            /\ trace[c][Len(trace[c])] = Calls(c)[5]
            /\ FirstTransient(Calls(c), 4)
      /\ (pc[c] = "idle" /\ Len(Calls(c)) >= 1 /\ Transient(ret[c])) => Len(Calls(c)) = 5

C4_Witness ==
  \E c \in threads :
    /\ ExecDone(c) /\ Len(Calls(c)) = 5
    /\ FirstTransient(Calls(c), 4)
    /\ Success(Calls(c)[5].out)
    /\ Success(ret[c])

\* ------------------------------------------------------------------------
\* C5 - error identity: the error a caller receives from a retry-wrapped
\* invocable is the error (class and message) the last executed attempt
\* raised, and an error raised by the last executed attempt is received:
\* none is swallowed, replaced or invented.
\* ------------------------------------------------------------------------
C5_ErrorIdentity ==
  \A c \in threads :
    (ExecDone(c) /\ Len(trace[c]) >= 1) =>
      LET last == trace[c][Len(trace[c])] IN
        /\ IsCall(last)
        /\ ret[c].k = "err" => ret[c] = last.out
        /\ last.out.k = "err" => ret[c] = last.out

C5_Witness ==
  \E c \in threads :
    /\ ExecDone(c) /\ Len(Calls(c)) = 5
    /\ ret[c] = Err("AutoReconnect", 2)
    /\ Calls(c)[4].out = Err("AutoReconnect", 1)

\* ------------------------------------------------------------------------
\* C6 - recursive wrap: proxy[key] on a proxy of U, where U[key] exists,
\* returns a new proxy of U[key] when U[key] is invocable and the raw value
\* otherwise.
\* ------------------------------------------------------------------------
C6_RecursiveWrap ==
  \A c \in threads :
    ( /\ op[c].name = "getitem"
      /\ op[c].item \in DOMAIN Heap[op[c].on.v].items ) =>
      LET item == Heap[op[c].on.v].items[op[c].item] IN
        ret[c] = IF HasCall(item) THEN Proxy(item) ELSE Raw(item)

\* ------------------------------------------------------------------------
\* C7 - attribute access dispatch.
\* The statement of the claim: for every member name n that U resolves,
\* proxy.n is a retry-wrapped invocable bound to U's member if and only if
\* the member is invocable and n is in the operation set, and is the value of
\* direct access on U in every other case.
\* ------------------------------------------------------------------------
Dispatched(c) ==
  LET member == Heap[op[c].on.v].attrs[op[c].attr] IN
    /\ ret[c] = Exec(member) <=>
         (HasCall(member) /\ op[c].attr \in EXECUTABLE_MONGO_METHODS)
    /\ ret[c] # Exec(member) => ret[c] = Raw(member)

C7_DispatchAnyName ==
  \A c \in threads :
    ( /\ op[c].name = "getattr"
      /\ op[c].attr \in DOMAIN Heap[op[c].on.v].attrs ) =>
      Dispatched(c)

\* C7 as amended: the same, for every member name n that U resolves and that
\* is not an attribute of the proxy object itself (its conn field, the
\* methods of its class).
C7_Dispatch ==
  \A c \in threads :
    ( /\ op[c].name = "getattr"
      /\ op[c].attr \in DOMAIN Heap[op[c].on.v].attrs
      /\ op[c].attr \notin {n_conn, n_str} ) =>
      Dispatched(c)

C7_Witness ==
  \E c \in threads :
    /\ op[c] = Op("getattr", Proxy("coll"), n_find, "", 0)
    /\ ret[c] = Exec("m_find")
    /\ cur[c] = Exec("m_find")

\* ------------------------------------------------------------------------
\* C8 - transitive interception: an invocable object that attribute access
\* or item access on a proxy resolves is handed to the caller proxied (as a
\* new proxy or as a retry-wrapped invocable), so that the operations
\* reached through it go through the retry loop.
\* ------------------------------------------------------------------------
C8_TransitiveInterception ==
  \A c \in threads :
    /\ ( /\ op[c].name = "getitem"
          /\ op[c].item \in DOMAIN Heap[op[c].on.v].items
          /\ HasCall(Heap[op[c].on.v].items[op[c].item]) ) =>
          ret[c].k \in {"proxy", "exec"}
    /\ ( /\ op[c].name = "getattr"
          /\ op[c].attr \in DOMAIN Heap[op[c].on.v].attrs
          /\ HasCall(Heap[op[c].on.v].attrs[op[c].attr]) ) =>
          ret[c].k \in {"proxy", "exec"}

\* ------------------------------------------------------------------------
\* C9 - direct invocation of the proxy forwards to the wrapped object's
\* invocation exactly once: whatever that one attempt returns or raises,
\* the transient error included, is the outcome, with no sleep and no warning.
\* ------------------------------------------------------------------------
C9_ProxyCallOnce ==
  \A c \in threads :
    op[c].name = "call_proxy" =>
      /\ pc[c] = "idle"
      /\ Len(trace[c]) = 1
      /\ IsCall(trace[c][1])
      /\ trace[c][1].a = op[c].args
      /\ ret[c] = trace[c][1].out

C9_Witness ==
  \E c \in threads :
    /\ op[c].name = "call_proxy" /\ op[c].on = Proxy("db")
    /\ Transient(ret[c])
    /\ Len(trace[c]) = 1

\* ------------------------------------------------------------------------
\* C10 - operation classification: once the module is loaded, a name is in
\* the operation set if and only if, on at least one root type, it is a
\* member that does not begin with '_' and whose value is invocable.
\* ------------------------------------------------------------------------
C10_Classification ==
  loaded =>
    \A n \in ClassifyNames \cup EXECUTABLE_MONGO_METHODS :
      n \in EXECUTABLE_MONGO_METHODS <=>
        \E j \in DOMAIN roots :
          /\ n \in DOMAIN roots[j]
          /\ Head(n) # "_"
          /\ roots[j][n] \in Objects /\ Heap[roots[j][n]].callable

C10_Witness ==
  /\ loaded
  /\ \E j \in DOMAIN roots :
       /\ DOMAIN roots[j] = {n_find, n_internal}
       /\ roots[j][n_find] = "m_find" /\ roots[j][n_internal] = "m_find"
  /\ n_find \in EXECUTABLE_MONGO_METHODS
  /\ n_internal \notin EXECUTABLE_MONGO_METHODS

\* ------------------------------------------------------------------------
\* C11 - classification determinism: once computed, the operation set (and
\* the root types it was computed from) is changed by no step of any proxy
\* operation: attribute access, indexed access, invocation, retry loop.
\* ------------------------------------------------------------------------
C11_OperationSetFixed ==
  [][ /\ EXECUTABLE_MONGO_METHODS' = EXECUTABLE_MONGO_METHODS
      /\ roots' = roots ]_vars

C11_Witness ==
  \E c \in threads :
    /\ ExecDone(c) /\ Len(Calls(c)) = 5
    /\ prior[c] = 3
    /\ EXECUTABLE_MONGO_METHODS = {n_find, n_count, n_Connection}

\* ------------------------------------------------------------------------
\* C12 - truthiness: bool(proxy) is True whatever the truth value of the
\* wrapped object and whatever was done with the proxy before.
\* ------------------------------------------------------------------------
C12_AlwaysTrue ==
  \A c \in threads :
    op[c].name = "bool" => ret[c] = Raw("True")

C12_Witness ==
  \E c \in threads :
    /\ op[c].name = "bool" /\ op[c].on = Proxy("doc")
    /\ "doc" \in FalsyObjects
    /\ prior[c] = 5
    /\ ret[c] = Raw("True")

\* ------------------------------------------------------------------------
\* C13 - ordering inside one retry loop: the first event is an attempt;
\* attempt number j (from 0) that fails with the transient error is followed
\* by the warning carrying j, then by a sleep of exactly 2^j, and only then
\* by attempt j + 1; the warnings carry 0, 1, 2, 3 in increasing order
\* without gaps, and an attempt is never made while a warning or a sleep of
\* the same call is pending.
\* ------------------------------------------------------------------------
C13_LoopOrdering ==
  \A c \in threads :
    op[c].name = "call" =>
      /\ Alternates(trace[c])
      /\ \A p \in DOMAIN trace[c] :
           /\ IsWarn(trace[c][p]) =>
                /\ trace[c][p].n = (p - 2) \div 3
                /\ Transient(trace[c][p - 1].out)
           /\ IsSleep(trace[c][p]) => trace[c][p].n = 2 ^ ((p - 3) \div 3)
      /\ Warnings(c) = [j \in 1..Len(Warnings(c)) |-> j - 1]
      /\ Len(Warnings(c)) <= 4
      /\ pc[c] = "warn" => IsCall(trace[c][Len(trace[c])])
      /\ pc[c] = "sleep" => IsWarn(trace[c][Len(trace[c])])
      /\ pc[c] \in {"loop", "final"} =>
           (trace[c] = <<>> \/ IsSleep(trace[c][Len(trace[c])]))

C13_Witness ==
  \E c \in threads :
    /\ op[c].name = "call" /\ pc[c] = "final"
    /\ Warnings(c) = <<0, 1, 2, 3>>
    /\ Delays(c) = <<1, 2, 4, 8>>
    /\ Len(Calls(c)) = 4

\* ------------------------------------------------------------------------
\* C14 - warning accounting: in a call that has ended, one warning was
\* logged per delayed retry, none before the first attempt and none after
\* the last one; the number of warnings equals the number of sleeps, both
\* are the number of attempts less one and at most 4.
\* ------------------------------------------------------------------------
C14_WarningAccounting ==
  \A c \in threads :
    ExecDone(c) =>
      /\ Len(Warnings(c)) = Len(Delays(c))
      /\ Len(Warnings(c)) = Len(Calls(c)) - 1
      /\ Len(Warnings(c)) <= 4
      /\ IsCall(trace[c][1])
      /\ IsCall(trace[c][Len(trace[c])])

C14_Witness ==
  \E c \in threads :
    /\ ExecDone(c) /\ Transient(ret[c])
    /\ Len(Calls(c)) = 5
    /\ Len(Warnings(c)) = 4 /\ Len(Delays(c)) = 4

\* ------------------------------------------------------------------------
\* C15 - stateless across calls: whatever the caller's earlier calls were
\* (none, successful, recovered after retries, exhausted), a call of a
\* retry-wrapped invocable counts its attempts from 0, its delays are
\* 2^0, 2^1, ... from the start, and it gives up on the transient error only
\* after the full budget of 5 attempts.
\* ------------------------------------------------------------------------
C15_FreshLoop ==
  \A c \in threads : \A n \in 0..5 :
    (op[c].name = "call" /\ prior[c] = n) =>
      /\ Delays(c) = [j \in 1..Len(Delays(c)) |-> 2 ^ (j - 1)]
      /\ pc[c] \in {"loop", "warn"} => i[c] = Len(Delays(c))
      /\ pc[c] = "loop" => Len(Calls(c)) = i[c]
      /\ (pc[c] = "idle" /\ Transient(ret[c])) => Len(Calls(c)) = 5

C15_Witness ==
  \E c \in threads :
    /\ ExecDone(c) /\ prior[c] = 5
    /\ Transient(ret[c])
    /\ Len(Calls(c)) = 5
    /\ Delays(c) = <<1, 2, 4, 8>>

\* ------------------------------------------------------------------------
\* C16 - caller independence under concurrency: in every interleaving of
\* two callers' retry loops each caller counts its own attempts from 0, has
\* the delays 1, 2, 4, 8 and the budget of 5 attempts; a step of one caller
\* changes nothing of the other's loop; and a caller inside its loop can
\* always take its next step, whatever the other is doing.
\* ------------------------------------------------------------------------
OwnLoop(c) ==
  op[c].name = "call" =>
    /\ Delays(c) = [j \in 1..Len(Delays(c)) |-> 2 ^ (j - 1)]
    /\ pc[c] \in {"loop", "warn"} => i[c] = Len(Delays(c))
    /\ pc[c] = "loop" => Len(Calls(c)) = i[c]
    /\ (pc[c] = "idle" /\ Transient(ret[c])) => Len(Calls(c)) = 5

NeverWaits(c) ==
  pc[c] # "idle" => ENABLED (LoopCall(c) \/ LogWarning(c) \/ Sleep(c) \/ FinalCall(c))

Moved(c) == pc'[c] # pc[c] \/ trace'[c] # trace[c]

C16_CallerIndependence ==
  /\ [](\A c \in threads : OwnLoop(c) /\ NeverWaits(c))
  /\ [][ \A c, d \in threads :
           (c # d /\ Moved(d)) =>
             /\ i'[c] = i[c] /\ pc'[c] = pc[c] /\ trace'[c] = trace[c]
             /\ ret'[c] = ret[c] /\ fx'[c] = fx[c] ]_vars

C16_Witness ==
  /\ threads = {1, 2}
  /\ ExecDone(1) /\ Transient(ret[1]) /\ Len(Calls(1)) = 5
  /\ op[2].name = "call" /\ pc[2] = "sleep" /\ i[2] = 1
  /\ Delays(2) = <<1>>

\* ------------------------------------------------------------------------
\* C17 - termination: when every attempt and every sleep returns, a retry
\* loop that has started eventually ends; it never makes more than 5
\* attempts, and it ends in exactly one of three ways: a success result
\* returned from the loop, the final attempt's outcome returned or raised
\* after the bounded retries, or a non-transient error raised from the loop.
\* ------------------------------------------------------------------------
EndsBySuccess(c) == Len(Calls(c)) <= 4 /\ Success(ret[c])
EndsByExhaustion(c) == Len(Calls(c)) = 5 /\ ret[c] = Calls(c)[5].out
EndsByFatal(c) == Len(Calls(c)) <= 4 /\ Fatal(ret[c])

EndsOneWay(c) ==
  Cardinality({w \in {"success", "exhaustion", "fatal"} :
                 \/ w = "success" /\ EndsBySuccess(c)
                 \/ w = "exhaustion" /\ EndsByExhaustion(c)
                 \/ w = "fatal" /\ EndsByFatal(c)}) = 1

C17_Termination ==
  /\ \A c \in {1} : (pc[c] # "idle") ~> (pc[c] = "idle")
  /\ [](\A c \in threads :
          op[c].name = "call" =>
            /\ Len(Calls(c)) <= 5
            /\ pc[c] = "idle" => EndsOneWay(c))

C17_Witness ==
  \E c \in threads :
    /\ ExecDone(c) /\ prior[c] = 2
    /\ EndsByExhaustion(c) /\ Transient(ret[c])

\* ------------------------------------------------------------------------
\* C18 - no deduplication: every attempt invokes the underlying operation
\* once, with the arguments of the call; a finished call has invoked it
\* 1 + (number of transient failures among the first 4 attempts) times,
\* between 1 and 5, whether or not an earlier attempt already applied its
\* effect, so an effect applied before a transient error is applied again.
\* ------------------------------------------------------------------------
TransientAmongFirst(c) ==
  Cardinality({k \in 1..Len(Calls(c)) : k <= RETRIES /\ Transient(Calls(c)[k].out)})

C18_NoDeduplication ==
  \A c \in threads :
    op[c].name = "call" =>
      /\ Len(fx[c]) = Len(Calls(c))
      /\ \A k \in 1..Len(Calls(c)) : Calls(c)[k].a = op[c].args
      /\ ExecDone(c) =>
           /\ Len(Calls(c)) = 1 + TransientAmongFirst(c)
           /\ Len(Calls(c)) \in 1..5

C18_Witness ==
  \E c \in threads :
    /\ ExecDone(c) /\ Success(ret[c])
    /\ Len(Calls(c)) = 2 /\ Transient(Calls(c)[1].out)
    /\ fx[c] = <<TRUE, TRUE>>

\* ------------------------------------------------------------------------
\* C19 - member resolution is outside the retry loop: an attribute access or
\* an item access on a proxy resolves the member at most once and logs no
\* warning and takes no delay; when that resolution raises the transient
\* error, the access ends with this very error. Warnings and delays occur
\* only in the call of a retry-wrapped invocable.
\* ------------------------------------------------------------------------
IsResolve(e) == e.t = "resolve"

C19_ResolutionNotRetried ==
  \A c \in threads :
    /\ op[c].name \in {"getattr", "getitem"} =>
         /\ pc[c] = "idle"
         /\ Len(SelectSeq(trace[c], IsResolve)) <= 1
         /\ Len(trace[c]) = Len(SelectSeq(trace[c], IsResolve))
         /\ \A k \in 1..Len(trace[c]) :
              Transient(trace[c][k].out) => ret[c] = trace[c][k].out
    /\ (\E k \in 1..Len(trace[c]) : IsWarn(trace[c][k]) \/ IsSleep(trace[c][k])) =>
         op[c].name = "call"

C19_Witness ==
  \E c \in threads :
    /\ op[c].name = "getattr" /\ op[c].attr \in RemoteNames
    /\ trace[c] = <<ResolveEv(Err("AutoReconnect", 1))>>
    /\ ret[c] = Err("AutoReconnect", 1)
    /\ pc[c] = "idle"

====
